---- MODULE Spec2Model ----
(***************************************************************************)
(* The generic editing views of django.views.generic.edit: FormView,       *)
(* CreateView, UpdateView, DeleteView, FormSetView, ModelFormSetView and   *)
(* InlineFormSetView.  One request is handled per step: the view instance  *)
(* ("self") is built from the class attributes, the handler of the HTTP    *)
(* verb runs to its end, and the state keeps the store it leaves behind    *)
(* together with a record of what the handler did and returned.            *)
(***************************************************************************)
EXTENDS Integers, Sequences, FiniteSets, TLC

VARIABLES
    cfg,      \* class attributes of the views: success_url, formsets, ...
    rows,     \* the stored objects (what the ORM holds)
    nextId,   \* the next primary key the store hands out
    last      \* the request handled last: its input, self, and the response

vars == <<cfg, rows, nextId, last>>

(***************************************************************************)
(* Bounds.                                                                 *)
(***************************************************************************)
\* requests are handled while the store has handed out fewer keys than this
MaxId == 3

(***************************************************************************)
(* Python values.                                                          *)
(***************************************************************************)
\* an empty dict
EmptyDict == <<>>

\* dict.update: the keys of e override those of d
Update(d, e) ==
    [k \in (DOMAIN d) \cup (DOMAIN e) |-> IF k \in DOMAIN e THEN e[k] ELSE d[k]]

\* a str is a sequence of tokens; None is told apart by the flag
NoneStr == [none |-> TRUE, s |-> <<>>]
PyStr(s) == [none |-> FALSE, s |-> s]

\* truth value of an optional str: None and "" are false
Truthy(u) == (~u.none) /\ u.s # <<>>

Digit(d) ==
    CASE d = 0 -> "0" [] d = 1 -> "1" [] d = 2 -> "2" [] d = 3 -> "3"
      [] d = 4 -> "4" [] d = 5 -> "5" [] d = 6 -> "6" [] d = 7 -> "7"
      [] d = 8 -> "8" [] OTHER -> "9"

\* "%s" % n for a natural number n
RECURSIVE IntStr(_)
IntStr(n) == IF n < 10 THEN <<Digit(n)>> ELSE IntStr(n \div 10) \o <<Digit(n % 10)>>

(***************************************************************************)
(* Model instances and the store.                                          *)
(***************************************************************************)
\* None where a model instance is expected
NoneObj == [id |-> 0, model |-> "None", val |-> "", parent |-> 0]

\* model(): a new, unsaved instance
NewObj(model) == [id |-> 0, model |-> model, val |-> "", parent |-> 0]

\* Model.save(): INSERT under a fresh key when the instance has none, UPDATE
\* of the row with its key otherwise; st is [rows, nextId]
ModelSave(st, obj) ==
    IF obj.id = 0
    THEN LET o == [obj EXCEPT !.id = st.nextId]
         IN  [rows |-> st.rows \cup {o}, nextId |-> st.nextId + 1, obj |-> o]
    ELSE [rows |-> {r \in st.rows : r.id # obj.id} \cup {obj},
          nextId |-> st.nextId, obj |-> obj]

\* Model.delete(): the row with the instance's key goes, and with it the
\* rows whose foreign key points to it
ModelDelete(st, obj) ==
    [rows |-> {r \in st.rows : r.id # obj.id /\ r.parent # obj.id},
     nextId |-> st.nextId]

\* SingleObjectMixin.get_object(): the stored object with the key of the URL
get_object(self) == CHOOSE r \in self.rows : r.id = self.pk

\* the key "%(id)s" of a success_url is filled with the object's id
IdKey == "%(id)s"

\* "%s" % obj.id: the key of a stored object, None for an object not yet saved
IdStr(obj) == IF obj.id = 0 THEN <<"None">> ELSE IntStr(obj.id)

\* success_url % obj.__dict__
Interpolate(s, obj) ==
    IF \E i \in DOMAIN s : s[i] = IdKey
    THEN LET RECURSIVE Fill(_)
             Fill(t) == IF t = <<>> THEN <<>>
                        ELSE (IF Head(t) = IdKey THEN IdStr(obj) ELSE <<Head(t)>>)
                             \o Fill(Tail(t))
         IN  Fill(s)
    ELSE s

\* Model.get_absolute_url() of a model that defines it
AbsoluteUrl(obj) == <<"/detail/">> \o IntStr(obj.id) \o <<"/">>

(***************************************************************************)
(* The views and their handlers' bookkeeping.                              *)
(***************************************************************************)
FormViews == {"FormView", "CreateView", "UpdateView"}
ModelFormViews == {"CreateView", "UpdateView"}
FormSetViews == {"FormSetView", "ModelFormSetView"}
InlineViews == {"InlineFormSetView"}
DeleteViews == {"DeleteView"}
Views == FormViews \cup FormSetViews \cup InlineViews \cup DeleteViews

(***************************************************************************)
(* The class statements and Python's method resolution order.              *)
(***************************************************************************)
\* InlineFormSetMixin declared with its bases the other way round
InlineFormSetMixin_bases_Swapped == <<"ModelFormMixin", "ModelFormSetMixin">>

\* class InlineFormSetMixin(ModelFormSetMixin, ModelFormMixin)
InlineFormSetMixin_bases == <<"ModelFormSetMixin", "ModelFormMixin">>

\* the bases of every class, as the class statements list them
Bases ==
    ("object" :> <<>>)
    @@ ("View" :> <<"object">>)
    @@ ("TemplateResponseMixin" :> <<"object">>)
    @@ ("SingleObjectMixin" :> <<"object">>)
    @@ ("SingleObjectTemplateResponseMixin" :> <<"TemplateResponseMixin">>)
    @@ ("BaseDetailView" :> <<"SingleObjectMixin", "View">>)
    @@ ("FormMixin" :> <<"object">>)
    @@ ("ModelFormMixin" :> <<"FormMixin", "SingleObjectMixin">>)
    @@ ("ProcessFormView" :> <<"View">>)
    @@ ("DeletionMixin" :> <<"object">>)
    @@ ("FormSetMixin" :> <<"object">>)
    @@ ("ModelFormSetMixin" :> <<"FormSetMixin">>)
    @@ ("InlineFormSetMixin" :> InlineFormSetMixin_bases)
    @@ ("ProcessFormSetView" :> <<"View">>)
    @@ ("ProcessInlineFormSetView" :> <<"View">>)
    @@ ("BaseFormView" :> <<"FormMixin", "ProcessFormView">>)
    @@ ("BaseCreateView" :> <<"ModelFormMixin", "ProcessFormView">>)
    @@ ("BaseUpdateView" :> <<"ModelFormMixin", "ProcessFormView">>)
    @@ ("BaseDeleteView" :> <<"DeletionMixin", "BaseDetailView">>)
    @@ ("BaseFormSetView" :> <<"FormSetMixin", "ProcessFormSetView">>)
    @@ ("BaseModelFormSetView" :> <<"ModelFormSetMixin", "ProcessFormSetView">>)
    @@ ("BaseInlineFormSetView" :> <<"InlineFormSetMixin", "ProcessInlineFormSetView">>)
    @@ ("FormView" :> <<"TemplateResponseMixin", "BaseFormView">>)
    @@ ("CreateView" :> <<"SingleObjectTemplateResponseMixin", "BaseCreateView">>)
    @@ ("UpdateView" :> <<"SingleObjectTemplateResponseMixin", "BaseUpdateView">>)
    @@ ("DeleteView" :> <<"SingleObjectTemplateResponseMixin", "BaseDeleteView">>)
    @@ ("FormSetView" :> <<"TemplateResponseMixin", "BaseFormSetView">>)
    @@ ("ModelFormSetView" :> <<"TemplateResponseMixin", "BaseModelFormSetView">>)
    @@ ("InlineFormSetView" :> <<"SingleObjectTemplateResponseMixin", "BaseInlineFormSetView">>)

\* the merge of the C3 linearisation: the first head that is in no tail
\* comes next; no such head means the class statement is rejected
RECURSIVE Merge(_)
Merge(seqs) ==
    LET ne == SelectSeq(seqs, LAMBDA s : s # <<>>)
    IN  IF ne = <<>> THEN <<>>
        ELSE LET InTail(h) == \E i \in DOMAIN ne : \E j \in 2..Len(ne[i]) : ne[i][j] = h
                 good == {i \in DOMAIN ne : ~InTail(Head(ne[i]))}
             IN  IF good = {} THEN <<"TypeError">>
                 ELSE LET i0 == CHOOSE i \in good : \A j \in good : i <= j
                          h  == Head(ne[i0])
                      IN  <<h>> \o Merge([k \in DOMAIN ne |->
                                 IF Head(ne[k]) = h THEN Tail(ne[k]) ELSE ne[k]])

\* cls.__mro__: the class, then the merge of the linearisations of its bases
\* and the list of the bases
RECURSIVE Linearise(_)
Linearise(cls) ==
    LET bases == Bases[cls]
    IN  <<cls>> \o Merge([i \in 1..(Len(bases) + 1) |->
                    IF i <= Len(bases) THEN Linearise(bases[i]) ELSE bases])

\* __mro__ of the view classes
Mro == [view \in {"FormView", "CreateView", "UpdateView", "DeleteView", "FormSetView",
                   "ModelFormSetView", "InlineFormSetView"} |-> Linearise(view)]

\* the classes whose body has a def get_success_url
DefinesGetSuccessUrl == {"FormMixin", "ModelFormMixin", "DeletionMixin", "FormSetMixin"}

\* attribute lookup on an instance of the view: the first class of the
\* __mro__ that defines the method
ResolveGetSuccessUrl(view) ==
    LET m == Mro[view]
        i == CHOOSE i \in DOMAIN m :
                 m[i] \in DefinesGetSuccessUrl
                 /\ \A j \in 1..(i - 1) : m[j] \notin DefinesGetSuccessUrl
    IN  m[i]

\* the calls a handler makes, in order
Log(self, op, arg) == [self EXCEPT !.log = Append(@, <<op, arg>>)]

NoResponse == [status |-> 0, exc |-> "none", location |-> <<>>, context |-> EmptyDict]

\* an exception leaves the handler: no response is returned
Raise(self, exc) == [self |-> self, resp |-> [NoResponse EXCEPT !.exc = exc]]

\* HttpResponseRedirect(url)
HttpResponseRedirect(self, url) ==
    [self |-> Log(self, "HttpResponseRedirect", 0),
     resp |-> [NoResponse EXCEPT !.status = 302, !.location = url]]

\* TemplateResponseMixin.render_to_response(context)
render_to_response(self, context) ==
    [self |-> Log(self, "render_to_response", 0),
     resp |-> [NoResponse EXCEPT !.status = 200, !.context = context]]

\* the trace of a handler also keeps each write of a row to the store
Stored(log, obj) == Append(log, <<"Model.save", obj.id>>)

(***************************************************************************)
(* Forms (django.forms): what the views rely on.                           *)
(***************************************************************************)
\* what a client can send for the fields of one form: nothing, values that
\* do not validate, or values that do
Vals == {"v1"}
FormData == {"blank", "bad"} \cup Vals

AuthorForm == [name |-> "AuthorForm", model |-> "author"]

\* modelform_factory(model)
modelform_factory(model) == [name |-> "ModelForm", model |-> model]

\* form_class(**kwargs): bound exactly when data (or files) is passed
Form(form_class, kwargs) ==
    [cls      |-> form_class,
     is_bound |-> ("data" \in DOMAIN kwargs) \/ ("files" \in DOMAIN kwargs),
     data     |-> IF "data" \in DOMAIN kwargs THEN kwargs.data.form ELSE "unbound",
     initial  |-> kwargs.initial,
     instance |-> IF "instance" \in DOMAIN kwargs /\ kwargs.instance # NoneObj
                  THEN kwargs.instance ELSE NewObj(form_class.model)]

\* form.is_valid(): a bound form whose required fields validate
is_valid(form) == form.is_bound /\ form.data \in Vals

\* ModelForm.save(commit): the cleaned data goes into the instance the form
\* holds, and with commit the instance into the store; the instance is
\* returned
form_save(self, form, commit) ==
    LET obj == [form.instance EXCEPT !.val = form.data]
        st  == ModelSave([rows |-> self.rows, nextId |-> self.nextId], obj)
    IN  IF commit
        THEN [self |-> [self EXCEPT !.rows = st.rows, !.nextId = st.nextId,
                                    !.log = Stored(@, st.obj)],
              obj  |-> st.obj, form |-> [form EXCEPT !.instance = st.obj]]
        ELSE [self |-> self, obj |-> obj, form |-> [form EXCEPT !.instance = obj]]

(***************************************************************************)
(* FormMixin and ModelFormMixin.                                           *)
(***************************************************************************)
get_initial(self) == self.initial

FormMixin_get_form_class(self) == self.form_class

ModelFormMixin_get_form_class(self) ==
    IF self.form_class.name # "None"
    THEN self.form_class
    ELSE modelform_factory(IF self.model # "None" THEN self.model
                           ELSE IF self.object # NoneObj THEN self.object.model
                           ELSE self.queryset_model)

get_form_class(self) ==
    IF self.view \in ModelFormViews \cup InlineViews
    THEN ModelFormMixin_get_form_class(self)
    ELSE FormMixin_get_form_class(self)

\* FormMixin.get_form_kwargs gone wrong: data and files on every method
FormMixin_get_form_kwargs_AnyMethod(self) ==
    Update([initial |-> get_initial(self)], [data |-> self.POST, files |-> self.FILES])

FormMixin_get_form_kwargs(self) ==
    LET kwargs == [initial |-> get_initial(self)]
    IN  IF self.method \in {"POST", "PUT"}
        THEN Update(kwargs, [data |-> self.POST, files |-> self.FILES])
        ELSE kwargs

ModelFormMixin_get_form_kwargs(self) ==
    Update(FormMixin_get_form_kwargs(self), [instance |-> self.object])

get_form_kwargs(self) ==
    IF self.view \in ModelFormViews \cup InlineViews
    THEN ModelFormMixin_get_form_kwargs(self)
    ELSE FormMixin_get_form_kwargs(self)

get_form(self, form_class) == Form(form_class, get_form_kwargs(self))

FormMixin_get_context_data(self, kwargs) == kwargs

\* SingleObjectMixin.get_context_object_name(obj): the model's name
get_context_object_name(obj) == obj.model

ModelFormMixin_get_context_data(self, kwargs) ==
    IF self.object # NoneObj
    THEN LET name == get_context_object_name(self.object)
         IN  Update(Update(kwargs, [object |-> self.object]),
                    [k \in {name} |-> self.object])
    ELSE kwargs

\* the outcome of get_success_url: the url, or the exception it raises
Url(s) == [exc |-> "none", url |-> s]
UrlError(exc) == [exc |-> exc, url |-> <<>>]

FormMixin_get_success_url(self) ==
    IF Truthy(self.success_url)
    THEN Url(self.success_url.s)
    ELSE UrlError("ImproperlyConfigured")

\* ModelFormMixin.get_success_url gone wrong: success_url is not interpolated
ModelFormMixin_get_success_url_Verbatim(self) ==
    IF Truthy(self.success_url)
    THEN Url(self.success_url.s)
    ELSE IF self.object # NoneObj /\ self.has_absolute_url
         THEN Url(AbsoluteUrl(self.object))
         ELSE UrlError("ImproperlyConfigured")

\* None has no __dict__: self.success_url % self.object.__dict__ raises
\* AttributeError, outside the try
ModelFormMixin_get_success_url(self) ==
    IF Truthy(self.success_url)
    THEN IF self.object = NoneObj
         THEN UrlError("AttributeError")
         ELSE Url(Interpolate(self.success_url.s, self.object))
    ELSE IF self.object # NoneObj /\ self.has_absolute_url
         THEN Url(AbsoluteUrl(self.object))
         ELSE UrlError("ImproperlyConfigured")

DeletionMixin_get_success_url(self) ==
    IF Truthy(self.success_url)
    THEN Url(self.success_url.s)
    ELSE UrlError("ImproperlyConfigured")

FormSetMixin_get_success_url(self) ==
    IF Truthy(self.success_url)
    THEN Url(self.success_url.s)
    ELSE UrlError("ImproperlyConfigured")

\* self.get_success_url(): the implementation the method resolution order
\* of the view's class finds first
get_success_url(self) ==
    LET cls == ResolveGetSuccessUrl(self.view)
    IN  CASE cls = "DeletionMixin" -> DeletionMixin_get_success_url(self)
          [] cls = "FormSetMixin" -> FormSetMixin_get_success_url(self)
          [] cls = "ModelFormMixin" -> ModelFormMixin_get_success_url(self)
          [] OTHER -> FormMixin_get_success_url(self)

\* HttpResponseRedirect(self.get_success_url())
RedirectToSuccessUrl(self) ==
    LET s == Log(self, "get_success_url", 0)
        u == get_success_url(s)
    IN  IF u.exc # "none" THEN Raise(s, u.exc) ELSE HttpResponseRedirect(s, u.url)

FormMixin_form_valid(self, form) == RedirectToSuccessUrl(self)

FormMixin_form_invalid(self, form) ==
    LET s == Log(self, "get_context_data", 0)
    IN  render_to_response(s,
            IF s.view \in ModelFormViews
            THEN ModelFormMixin_get_context_data(s, [form |-> form])
            ELSE FormMixin_get_context_data(s, [form |-> form]))

\* ModelFormMixin.form_valid gone wrong: the form is not saved
ModelFormMixin_form_valid_NoSave(self, form) ==
    FormMixin_form_valid(self, form)

ModelFormMixin_form_valid(self, form) ==
    LET sv == form_save(Log(self, "form.save", 0), form, TRUE)
    IN  FormMixin_form_valid([sv.self EXCEPT !.object = sv.obj], form)

(***************************************************************************)
(* ProcessFormView, the create and update views, DeletionMixin.            *)
(* argv is what the caller passes positionally: the request, then the      *)
(* positional arguments of the URL.  A handler declared                    *)
(* (self, request, *args, **kwargs) needs at least the request.            *)
(***************************************************************************)
ProcessFormView_get(self, argv) ==
    IF Len(argv) < 1 THEN Raise(self, "TypeError") ELSE
    LET form == get_form(self, get_form_class(self))
        s    == Log(self, "get_context_data", 0)
    IN  render_to_response(s,
            IF s.view \in ModelFormViews
            THEN ModelFormMixin_get_context_data(s, [form |-> form])
            ELSE FormMixin_get_context_data(s, [form |-> form]))

\* ProcessFormView.post gone wrong: form_valid without asking is_valid
ProcessFormView_post_Unchecked(self, argv) ==
    IF Len(argv) < 1 THEN Raise(self, "TypeError") ELSE
    LET form == get_form(self, get_form_class(self))
        s    == Log(self, "form.is_valid", IF is_valid(form) THEN 1 ELSE 0)
    IN  IF s.view \in ModelFormViews
        THEN ModelFormMixin_form_valid(Log(s, "form_valid", 0), form)
        ELSE FormMixin_form_valid(Log(s, "form_valid", 0), form)

ProcessFormView_post(self, argv) ==
    IF Len(argv) < 1 THEN Raise(self, "TypeError") ELSE
    LET form == get_form(self, get_form_class(self))
        s    == Log(self, "form.is_valid", IF is_valid(form) THEN 1 ELSE 0)
    IN  IF is_valid(form)
        THEN IF s.view \in ModelFormViews
             THEN ModelFormMixin_form_valid(Log(s, "form_valid", 0), form)
             ELSE FormMixin_form_valid(Log(s, "form_valid", 0), form)
        ELSE FormMixin_form_invalid(Log(s, "form_invalid", 0), form)

BaseCreateView_get(self, argv) ==
    IF Len(argv) < 1 THEN Raise(self, "TypeError") ELSE
    ProcessFormView_get([self EXCEPT !.object = NoneObj], argv)

BaseCreateView_post(self, argv) ==
    IF Len(argv) < 1 THEN Raise(self, "TypeError") ELSE
    ProcessFormView_post([self EXCEPT !.object = NoneObj], argv)

BaseUpdateView_get(self, argv) ==
    IF Len(argv) < 1 THEN Raise(self, "TypeError") ELSE
    ProcessFormView_get([Log(self, "get_object", 0) EXCEPT !.object = get_object(self)], argv)

\* BaseUpdateView.post gone wrong: self.object is not looked up
BaseUpdateView_post_NoObject(self, argv) ==
    IF Len(argv) < 1 THEN Raise(self, "TypeError") ELSE
    ProcessFormView_post([self EXCEPT !.object = NoneObj], argv)

BaseUpdateView_post(self, argv) ==
    IF Len(argv) < 1 THEN Raise(self, "TypeError") ELSE
    ProcessFormView_post([Log(self, "get_object", 0) EXCEPT !.object = get_object(self)], argv)

\* DeletionMixin.delete gone wrong: the whole queryset is deleted
DeletionMixin_delete_All(self, argv) ==
    IF Len(argv) < 1 THEN Raise(self, "TypeError") ELSE
    LET obj == get_object(self)
        s1  == Log(Log(self, "get_object", 0), "object.delete", obj.id)
    IN  RedirectToSuccessUrl([s1 EXCEPT !.object = obj, !.rows = {}])

DeletionMixin_delete(self, argv) ==
    IF Len(argv) < 1 THEN Raise(self, "TypeError") ELSE
    LET obj == get_object(self)
        s1  == Log(Log(self, "get_object", 0), "object.delete", obj.id)
        st  == ModelDelete([rows |-> s1.rows, nextId |-> s1.nextId], obj)
    IN  RedirectToSuccessUrl([s1 EXCEPT !.object = obj, !.rows = st.rows])

DeletionMixin_post(self, argv) == DeletionMixin_delete(self, argv)

\* BaseDetailView.get: shows the object
BaseDetailView_get(self, argv) ==
    IF Len(argv) < 1 THEN Raise(self, "TypeError") ELSE
    LET s == [Log(self, "get_object", 0) EXCEPT !.object = get_object(self)]
    IN  render_to_response(Log(s, "get_context_data", 0), [object |-> s.object])

(***************************************************************************)
(* Formsets (django.forms.formsets, django.forms.models).                  *)
(***************************************************************************)
\* formset(prefix=prefix, **kwargs): a bound formset reads the forms sent
\* under its prefix
Formset(cls, prefix, kwargs) ==
    [cls      |-> cls,
     prefix   |-> prefix,
     is_bound |-> ("data" \in DOMAIN kwargs) \/ ("files" \in DOMAIN kwargs),
     forms    |-> IF "data" \in DOMAIN kwargs THEN kwargs.data.formsets[prefix] ELSE <<>>,
     instance |-> IF "instance" \in DOMAIN kwargs THEN kwargs.instance ELSE NoneObj]

\* formset.is_valid(): bound, and no form filled in with values that do not
\* validate; a form left blank is valid
formset_is_valid(fs) ==
    fs.is_bound /\ \A i \in DOMAIN fs.forms : fs.forms[i] # "bad"

\* all_valid(formsets)
all_valid(formsets) == \A i \in DOMAIN formsets : formset_is_valid(formsets[i])

\* formset.save(): every form that was filled in becomes a stored object; an
\* inline formset's objects point to the parent instance it holds
RECURSIVE SaveForms(_, _, _, _)
SaveForms(st, forms, model, parent) ==
    IF forms = <<>> THEN st
    ELSE IF Head(forms) = "blank" THEN SaveForms(st, Tail(forms), model, parent)
    ELSE LET o == [NewObj(model) EXCEPT !.val = Head(forms), !.parent = parent]
             r == ModelSave(st, o)
         IN  SaveForms([rows |-> r.rows, nextId |-> r.nextId, log |-> Stored(st.log, r.obj)],
                       Tail(forms), model, parent)

formset_save(self, i) ==
    LET fs == self.formsets_instances[i]
        s  == Log(self, "formset.save", i)
        st == SaveForms([rows |-> s.rows, nextId |-> s.nextId, log |-> s.log], fs.forms,
                        fs.cls.model,
                        fs.instance.id)
    IN  [s EXCEPT !.rows = st.rows, !.nextId = st.nextId, !.log = st.log]

\* for formset in self.formsets_instances: formset.save()
RECURSIVE SaveFormsets(_, _)
SaveFormsets(self, i) ==
    IF i > Len(self.formsets_instances) THEN self
    ELSE SaveFormsets(formset_save(self, i), i + 1)

(***************************************************************************)
(* FormSetMixin, ModelFormSetMixin, InlineFormSetMixin.                    *)
(***************************************************************************)
\* "%s-%s" % (prefix, n)
PrefixN(prefix, n) == prefix \o <<"-">> \o IntStr(n)

\* BaseFormSet.get_default_prefix(), a classmethod a subclass may override
FormSetMixin_get_default_prefix(self, formset) == formset.default_prefix

\* the accessor name of the foreign key to the parent, without its "+"
InlineFormSetMixin_get_default_prefix(self, formset) ==
    SelectSeq(formset.accessor, LAMBDA c : c # "+")

get_default_prefix(self, formset) ==
    IF self.view \in InlineViews
    THEN InlineFormSetMixin_get_default_prefix(self, formset)
    ELSE FormSetMixin_get_default_prefix(self, formset)

FormSetMixin_get_formsets_kwargs(self, formset) ==
    IF self.method \in {"POST", "PUT"}
    THEN Update(EmptyDict, [data |-> self.POST, files |-> self.FILES])
    ELSE EmptyDict

InlineFormSetMixin_get_formsets_kwargs(self, formset) ==
    Update(FormSetMixin_get_formsets_kwargs(self, formset),
           [instance |-> self.object, parent_model |-> self.object.model])

get_formsets_kwargs(self, formset) ==
    IF self.view \in InlineViews
    THEN InlineFormSetMixin_get_formsets_kwargs(self, formset)
    ELSE FormSetMixin_get_formsets_kwargs(self, formset)

\* prefixes.get(prefix, 0)
DictGet(d, k, default) == IF k \in DOMAIN d THEN d[k] ELSE default

\* the loop of construct_formsets from the n-th formset class on: prefixes
\* counts the default prefixes seen so far, instances is what was appended
RECURSIVE ConstructLoop(_, _, _, _)
ConstructLoop(self, n, prefixes, instances) ==
    IF n > Len(self.formsets) THEN instances
    ELSE LET formset == self.formsets[n]
             default == get_default_prefix(self, formset)
             count   == DictGet(prefixes, default, 0) + 1
             prefix  == IF count # 1 THEN PrefixN(default, count) ELSE default
         IN  ConstructLoop(self, n + 1,
                 [k \in (DOMAIN prefixes) \cup {default} |->
                     IF k = default THEN count ELSE prefixes[k]],
                 Append(instances,
                        Formset(formset, prefix, get_formsets_kwargs(self, formset))))

\* construct_formsets gone wrong: the instances are appended to the list
\* that is already there
construct_formsets_Appending(self) ==
    [Log(self, "construct_formsets", 0) EXCEPT
        !.formsets_instances = ConstructLoop(self, 1, EmptyDict, self.formsets_instances)]

\* FormSetMixin.construct_formsets and InlineFormSetMixin.construct_formsets:
\* the same loop, over the default prefix of the class or of the foreign key
construct_formsets(self) ==
    [Log(self, "construct_formsets", 0) EXCEPT
        !.formsets_instances = ConstructLoop(self, 1, EmptyDict, <<>>)]

FormSetMixin_get_context_data(self, kwargs) ==
    Update([formsets |-> self.formsets_instances], kwargs)

InlineFormSetMixin_get_context_data(self, kwargs) ==
    Update(FormSetMixin_get_context_data(self, EmptyDict),
           ModelFormMixin_get_context_data(self, kwargs))

get_context_data(self, kwargs) ==
    CASE self.view \in InlineViews -> InlineFormSetMixin_get_context_data(self, kwargs)
      [] self.view \in FormSetViews -> FormSetMixin_get_context_data(self, kwargs)
      [] self.view \in ModelFormViews -> ModelFormMixin_get_context_data(self, kwargs)
      [] OTHER -> FormMixin_get_context_data(self, kwargs)

FormSetMixin_formsets_valid(self) == RedirectToSuccessUrl(self)

FormSetMixin_formsets_invalid(self) ==
    LET s == Log(self, "get_context_data", 0)
    IN  render_to_response(s, get_context_data(s, EmptyDict))

\* ModelFormSetMixin.formsets_valid gone wrong: only the first formset is saved
ModelFormSetMixin_formsets_valid_FirstOnly(self) ==
    FormSetMixin_formsets_valid(
        IF self.formsets_instances = <<>> THEN self ELSE formset_save(self, 1))

ModelFormSetMixin_formsets_valid(self) ==
    FormSetMixin_formsets_valid(SaveFormsets(self, 1))

\* ModelFormSetMixin's for the views that inherit it: ModelFormSetView, and
\* InlineFormSetView through InlineFormSetMixin
formsets_valid(self) ==
    IF self.view \in {"ModelFormSetView"} \cup InlineViews
    THEN ModelFormSetMixin_formsets_valid(self)
    ELSE FormSetMixin_formsets_valid(self)

\* instance=self.object: the inline formsets hold the object self.object
\* names, not a copy, so what is done to it shows in each of them
SameObject(self, obj) ==
    [self EXCEPT !.object = obj,
                 !.formsets_instances =
                     [i \in DOMAIN @ |-> IF @[i].instance = NoneObj THEN @[i]
                                         ELSE [@[i] EXCEPT !.instance = obj]]]

\* InlineFormSetMixin.form_valid gone wrong: the inline formsets are saved
\* before the parent object
InlineFormSetMixin_form_valid_FormsetsFirst(self, form) ==
    LET s0 == Log(SaveFormsets(self, 1), "object.save", 0)
        st == ModelSave([rows |-> s0.rows, nextId |-> s0.nextId], s0.object)
        s1 == SameObject([s0 EXCEPT !.rows = st.rows, !.nextId = st.nextId,
                                    !.log = Stored(@, st.obj)], st.obj)
    IN  RedirectToSuccessUrl(Log(s1, "form.save_m2m", 0))

InlineFormSetMixin_form_valid(self, form) ==
    LET s0 == Log(self, "object.save", 0)
        st == ModelSave([rows |-> s0.rows, nextId |-> s0.nextId], s0.object)
        s1 == SameObject([s0 EXCEPT !.rows = st.rows, !.nextId = st.nextId,
                                    !.log = Stored(@, st.obj)], st.obj)
        s2 == SaveFormsets(Log(s1, "form.save_m2m", 0), 1)
    IN  RedirectToSuccessUrl(s2)

InlineFormSetMixin_form_invalid(self, form) ==
    LET s == Log(self, "get_context_data", 0)
    IN  render_to_response(s, get_context_data(s, [form |-> form]))

(***************************************************************************)
(* ProcessFormSetView and ProcessInlineFormSetView.                        *)
(***************************************************************************)
ProcessFormSetView_get(self, argv) ==
    IF Len(argv) < 1 THEN Raise(self, "TypeError") ELSE
    LET s == Log(construct_formsets(self), "get_context_data", 0)
    IN  render_to_response(s, get_context_data(s, EmptyDict))

\* ProcessFormSetView.post gone wrong: one valid formset is enough
ProcessFormSetView_post_AnyValid(self, argv) ==
    IF Len(argv) < 1 THEN Raise(self, "TypeError") ELSE
    LET s0 == construct_formsets(self)
        s  == Log(s0, "all_valid", IF all_valid(s0.formsets_instances) THEN 1 ELSE 0)
    IN  IF \E i \in DOMAIN s.formsets_instances : formset_is_valid(s.formsets_instances[i])
        THEN formsets_valid(Log(s, "formsets_valid", 0))
        ELSE FormSetMixin_formsets_invalid(Log(s, "formsets_invalid", 0))

ProcessFormSetView_post(self, argv) ==
    IF Len(argv) < 1 THEN Raise(self, "TypeError") ELSE
    LET s0 == construct_formsets(self)
        s  == Log(s0, "all_valid", IF all_valid(s0.formsets_instances) THEN 1 ELSE 0)
    IN  IF all_valid(s.formsets_instances)
        THEN formsets_valid(Log(s, "formsets_valid", 0))
        ELSE FormSetMixin_formsets_invalid(Log(s, "formsets_invalid", 0))

\* put(self, request, *args, **kwargs): return self.post(*args, **kwargs)
ProcessFormSetView_put(self, argv) ==
    IF Len(argv) < 1 THEN Raise(self, "TypeError") ELSE
    ProcessFormSetView_post(self, Tail(argv))

\* try: self.object = self.get_object()
\* except AttributeError: self.object = self.model()
\* get_object raises AttributeError when the URL names no object
CreateOrUpdate(self) ==
    IF self.pk = 0
    THEN [Log(self, "get_object", 0) EXCEPT !.object = NewObj(self.model)]
    ELSE [Log(self, "get_object", 0) EXCEPT !.object = get_object(self)]

ProcessInlineFormSetView_get(self, argv) ==
    IF Len(argv) < 1 THEN Raise(self, "TypeError") ELSE
    LET s0   == CreateOrUpdate(self)
        form == get_form(s0, get_form_class(s0))
        s    == Log(construct_formsets(s0), "get_context_data", 0)
    IN  render_to_response(s, get_context_data(s, [form |-> form]))

\* ProcessInlineFormSetView.post gone wrong: form.save() without commit=False
ProcessInlineFormSetView_post_Commit(self, argv) ==
    IF Len(argv) < 1 THEN Raise(self, "TypeError") ELSE
    LET s0   == CreateOrUpdate(self)
        form == get_form(s0, get_form_class(s0))
        s1   == Log(s0, "form.is_valid", IF is_valid(form) THEN 1 ELSE 0)
    IN  IF is_valid(form)
        THEN LET sv == form_save(Log(s1, "form.save(commit=False)", 0), form, TRUE)
                 s2 == construct_formsets([sv.self EXCEPT !.object = sv.obj])
                 s3 == Log(s2, "all_valid",
                           IF all_valid(s2.formsets_instances) THEN 1 ELSE 0)
             IN  IF all_valid(s3.formsets_instances)
                 THEN InlineFormSetMixin_form_valid(Log(s3, "form_valid", 0), sv.form)
                 ELSE InlineFormSetMixin_form_invalid(Log(s3, "form_invalid", 0), sv.form)
        ELSE InlineFormSetMixin_form_invalid(
                 Log(construct_formsets(s1), "form_invalid", 0), form)

\* ProcessInlineFormSetView.post gone wrong: the formsets are constructed
\* before self.object = form.save(commit=False)
ProcessInlineFormSetView_post_ConstructFirst(self, argv) ==
    IF Len(argv) < 1 THEN Raise(self, "TypeError") ELSE
    LET s0   == CreateOrUpdate(self)
        form == get_form(s0, get_form_class(s0))
        s1   == Log(s0, "form.is_valid", IF is_valid(form) THEN 1 ELSE 0)
    IN  IF is_valid(form)
        THEN LET sc == construct_formsets(s1)
                 sv == form_save(Log(sc, "form.save(commit=False)", 0), form, FALSE)
                 s2 == SameObject(sv.self, sv.obj)
                 s3 == Log(s2, "all_valid",
                           IF all_valid(s2.formsets_instances) THEN 1 ELSE 0)
             IN  IF all_valid(s3.formsets_instances)
                 THEN InlineFormSetMixin_form_valid(Log(s3, "form_valid", 0), sv.form)
                 ELSE InlineFormSetMixin_form_invalid(Log(s3, "form_invalid", 0), sv.form)
        ELSE InlineFormSetMixin_form_invalid(
                 Log(construct_formsets(s1), "form_invalid", 0), form)

ProcessInlineFormSetView_post(self, argv) ==
    IF Len(argv) < 1 THEN Raise(self, "TypeError") ELSE
    LET s0   == CreateOrUpdate(self)
        form == get_form(s0, get_form_class(s0))
        s1   == Log(s0, "form.is_valid", IF is_valid(form) THEN 1 ELSE 0)
    IN  IF is_valid(form)
        THEN LET sv == form_save(Log(s1, "form.save(commit=False)", 0), form, FALSE)
                 s2 == construct_formsets([sv.self EXCEPT !.object = sv.obj])
                 s3 == Log(s2, "all_valid",
                           IF all_valid(s2.formsets_instances) THEN 1 ELSE 0)
             IN  IF all_valid(s3.formsets_instances)
                 THEN InlineFormSetMixin_form_valid(Log(s3, "form_valid", 0), sv.form)
                 ELSE InlineFormSetMixin_form_invalid(Log(s3, "form_invalid", 0), sv.form)
        ELSE InlineFormSetMixin_form_invalid(
                 Log(construct_formsets(s1), "form_invalid", 0), form)

\* put(self, request, *args, **kwargs): return self.post(*args, **kwargs)
ProcessInlineFormSetView_put(self, argv) ==
    IF Len(argv) < 1 THEN Raise(self, "TypeError") ELSE
    ProcessInlineFormSetView_post(self, Tail(argv))

\* self.post of a form view: the create and update views override post
FormView_post(self, argv) ==
    CASE self.view = "CreateView" -> BaseCreateView_post(self, argv)
      [] self.view = "UpdateView" -> BaseUpdateView_post(self, argv)
      [] OTHER -> ProcessFormView_post(self, argv)

\* put(self, *args, **kwargs): return self.post(*args, **kwargs)
ProcessFormView_put(self, argv) == FormView_post(self, argv)

(***************************************************************************)
(* View.dispatch: the handler named by the HTTP verb, for each view class. *)
(***************************************************************************)
get(self, argv) ==
    CASE self.view = "FormView" -> ProcessFormView_get(self, argv)
      [] self.view = "CreateView" -> BaseCreateView_get(self, argv)
      [] self.view = "UpdateView" -> BaseUpdateView_get(self, argv)
      [] self.view = "DeleteView" -> BaseDetailView_get(self, argv)
      [] self.view \in FormSetViews -> ProcessFormSetView_get(self, argv)
      [] OTHER -> ProcessInlineFormSetView_get(self, argv)

post(self, argv) ==
    CASE self.view \in FormViews -> FormView_post(self, argv)
      [] self.view = "DeleteView" -> DeletionMixin_post(self, argv)
      [] self.view \in FormSetViews -> ProcessFormSetView_post(self, argv)
      [] OTHER -> ProcessInlineFormSetView_post(self, argv)

put(self, argv) ==
    CASE self.view \in FormViews -> ProcessFormView_put(self, argv)
      [] self.view \in FormSetViews -> ProcessFormSetView_put(self, argv)
      [] OTHER -> ProcessInlineFormSetView_put(self, argv)

delete(self, argv) == DeletionMixin_delete(self, argv)

\* handler = getattr(self, request.method.lower())
dispatch(self, argv) ==
    CASE self.method = "GET" -> get(self, argv)
      [] self.method = "POST" -> post(self, argv)
      [] self.method = "PUT" -> put(self, argv)
      [] OTHER -> delete(self, argv)

(***************************************************************************)
(* Configurations and requests.                                            *)
(***************************************************************************)
ArticleFormSet ==
    [name |-> "ArticleFormSet", default_prefix |-> <<"form">>,
     model |-> "article", accessor |-> <<"article_set">>]

AuthorFormSet ==
    [name |-> "AuthorFormSet", default_prefix |-> <<"form">>,
     model |-> "author", accessor |-> <<"author_set", "+">>]

\* a formset class whose own default prefix ends in a number
NumberedFormSet ==
    [name |-> "NumberedFormSet", default_prefix |-> <<"form", "-", "2">>,
     model |-> "article", accessor |-> <<"numbered_set">>]

\* the success_url a view class may declare: none, a plain one, and one
\* that names an attribute of the object
SuccessUrls == {NoneStr, PyStr(<<"/list/">>), PyStr(<<"/edit/", IdKey, "/">>)}

\* the lists of formset classes a view class may declare
FormsetLists ==
    {<<>>, <<ArticleFormSet>>, <<ArticleFormSet, AuthorFormSet>>,
     <<ArticleFormSet, AuthorFormSet, NumberedFormSet>>}

\* the class attributes of a view class: initial = {} and form_class are
\* those of the test views
Configs ==
    [success_url : SuccessUrls, has_absolute_url : BOOLEAN, formsets : FormsetLists,
     initial : {EmptyDict}, form_class : {AuthorForm}]

\* what a client can send for one formset: its forms, in order
FormsetPosts == {<<"blank", "blank">>, <<"v1", "blank">>, <<"v1", "bad">>}

\* the positional arguments: the request, then those of the URL
Argvs == {<<"request">>, <<"request", "arg">>}

\* the view instance as_view() builds for a request, from the class
\* attributes, and what dispatch sets on it
MakeSelf(c, req, store, next) ==
    [view |-> req.view, method |-> req.method, POST |-> req.POST, FILES |-> "files",
     pk |-> req.pk,
     initial |-> c.initial, form_class |-> c.form_class, model |-> "author",
     queryset_model |-> "author",
     success_url |-> c.success_url, has_absolute_url |-> c.has_absolute_url,
     formsets |-> c.formsets,
     object |-> NoneObj, formsets_instances |-> <<>>,
     rows |-> store, nextId |-> next, log |-> <<>>]

\* the prefixes of the formsets on the page of a view: the names under which
\* a client sends their forms
PagePrefixes(c, view) ==
    LET s == construct_formsets(MakeSelf(c,
                 [view |-> view, method |-> "GET", POST |-> EmptyDict, pk |-> 0],
                 {}, 1))
    IN  {s.formsets_instances[i].prefix : i \in DOMAIN s.formsets_instances}

\* request.POST: the fields of the form and, under each prefix, the forms of
\* a formset; empty unless the request carries a body
Posts(c, view, method) ==
    IF method \in {"POST", "PUT"}
    THEN [form : IF view \in FormViews \cup InlineViews THEN FormData ELSE {"blank"},
          formsets : IF view \in FormSetViews \cup InlineViews
                     THEN [PagePrefixes(c, view) -> FormsetPosts]
                     ELSE [PagePrefixes(c, view) -> {<<>>}]]
    ELSE [form : {"blank"}, formsets : [PagePrefixes(c, view) -> {<<>>}]]

\* the object the URL names: one that is stored, for the views that look one
\* up; the inline view also takes a URL that names none
Pks(view, store) ==
    CASE view = "DeleteView" -> {r.id : r \in store}
      [] view = "UpdateView" -> {r.id : r \in {x \in store : x.model = "author"}}
      [] view \in InlineViews -> {0} \cup {r.id : r \in {x \in store : x.model = "author"}}
      [] OTHER -> {0}

Requests(c, view, method, store) ==
    [view : {view}, method : {method}, POST : Posts(c, view, method),
     pk : Pks(view, store), argv : Argvs]

NoRequest ==
    [view |-> "none", method |-> "none", POST |-> [form |-> "blank", formsets |-> EmptyDict],
     pk |-> 0, argv |-> <<>>]

\* the stores a behaviour starts from: empty, an author, an author with an
\* article
StoredAuthor == [id |-> 1, model |-> "author", val |-> "v0", parent |-> 0]
StoredArticle == [id |-> 2, model |-> "article", val |-> "v0", parent |-> 1]
InitStores == {{}, {StoredAuthor}, {StoredAuthor, StoredArticle}}

(***************************************************************************)
(* The state machine: one step handles one request.                        *)
(***************************************************************************)
\* no request is being handled: the view instance of the last one is gone
Idle(c, store, next) ==
    [req |-> NoRequest, self |-> MakeSelf(c, NoRequest, store, next),
     resp |-> NoResponse, pre |-> store, preNext |-> next]

Init ==
    /\ cfg \in Configs
    /\ rows \in InitStores
    /\ nextId = Cardinality(rows) + 1
    /\ last = Idle(cfg, rows, nextId)

\* a request is taken when none is being handled, and while the store has
\* handed out no more than MaxId keys
Ready == last.req = NoRequest /\ nextId <= MaxId

\* the class attributes as a handler leaves them: the instance reads them
\* through to its class, and the formsets list and the initial dict it reads
\* are the class's own objects, shared by every request
ClassAttributes(self) ==
    [success_url |-> self.success_url, has_absolute_url |-> self.has_absolute_url,
     formsets |-> self.formsets, initial |-> self.initial,
     form_class |-> self.form_class]

\* the state after a handler has run to its end
Handled(req, out) ==
    /\ rows' = out.self.rows
    /\ nextId' = out.self.nextId
    /\ last' = [req |-> req, self |-> out.self, resp |-> out.resp,
                pre |-> rows, preNext |-> nextId]
    /\ cfg' = ClassAttributes(out.self)

Get ==
    /\ Ready
    /\ \E view \in Views : \E req \in Requests(cfg, view, "GET", rows) :
           Handled(req, get(MakeSelf(cfg, req, rows, nextId), req.argv))

Post ==
    /\ Ready
    /\ \E view \in Views : \E req \in Requests(cfg, view, "POST", rows) :
           Handled(req, post(MakeSelf(cfg, req, rows, nextId), req.argv))

Put ==
    /\ Ready
    /\ \E view \in Views \ DeleteViews : \E req \in Requests(cfg, view, "PUT", rows) :
           Handled(req, put(MakeSelf(cfg, req, rows, nextId), req.argv))

Delete ==
    /\ Ready
    /\ \E view \in DeleteViews : \E req \in Requests(cfg, view, "DELETE", rows) :
           Handled(req, delete(MakeSelf(cfg, req, rows, nextId), req.argv))

\* the response (or the exception) has gone out: the view instance, its form
\* and its formsets are discarded; the store stays
Finish ==
    /\ last.req # NoRequest
    /\ last' = Idle(cfg, rows, nextId)
    /\ UNCHANGED <<cfg, rows, nextId>>

Next == Get \/ Post \/ Put \/ Delete \/ Finish

Spec == Init /\ [][Next]_vars

(***************************************************************************)
(* What the properties read off the request handled last.                  *)
(***************************************************************************)
Req == last.req
Resp == last.resp
Calls == last.self.log

\* how often the handler made a call
Count(op) == Cardinality({i \in DOMAIN Calls : Calls[i][1] = op})

\* the call was made, with this argument
Called(op, arg) == \E i \in DOMAIN Calls : Calls[i] = <<op, arg>>

Handling(views, methods) == Req.view \in views /\ Req.method \in methods

Redirected == Resp.status = 302 /\ Resp.exc = "none"
Rendered == Resp.status = 200 /\ Resp.exc = "none"
\* the exception left the handler: neither a redirect nor a page came back
Failed(exc) ==
    /\ Resp.exc = exc
    /\ Resp.status = 0
    /\ Count("HttpResponseRedirect") = 0
    /\ Count("render_to_response") = 0

\* the url the claims expect of a view that only has success_url
PlainSuccessUrl == cfg.success_url.s

\* the url the claims expect of a create or update view
ObjectSuccessUrl ==
    IF Truthy(cfg.success_url)
    THEN Interpolate(cfg.success_url.s, last.self.object)
    ELSE AbsoluteUrl(last.self.object)

\* some success url can be computed for the view of the request
HasSuccessUrl ==
    \/ Truthy(cfg.success_url)
    \/ Req.view \in ModelFormViews /\ cfg.has_absolute_url

ExpectedSuccessUrl ==
    IF Req.view \in ModelFormViews THEN ObjectSuccessUrl ELSE PlainSuccessUrl

\* the page shows the form bound to what was sent
ShowsBoundForm ==
    /\ "form" \in DOMAIN Resp.context
    /\ Resp.context.form.is_bound
    /\ Resp.context.form.data = Req.POST.form

\* the fields sent for the form validate
SentValidForm == Req.POST.form \in Vals

\* C1 as stated: a POST to a form view ends in one of two ways, by
\* form.is_valid(): a redirect to get_success_url() after exactly one
\* form.save() (model views), or the page with the bound form and no save.
C1_TwoOutcomes ==
    Handling(FormViews, {"POST"}) =>
        IF SentValidForm
        THEN /\ Redirected
             /\ Resp.location = ExpectedSuccessUrl
             /\ Req.view \in ModelFormViews => Count("form.save") = 1
        ELSE /\ Rendered
             /\ ShowsBoundForm
             /\ Count("form.save") = 0
             /\ rows = last.pre

\* C1 amended: a POST to a form view ends in one of three ways.  A valid
\* form is saved exactly once (model views) and then either the redirect to
\* get_success_url() is returned or, when no success url can be computed,
\* ImproperlyConfigured leaves the handler and nothing is returned.  An
\* invalid form gives the page with the same bound form, no save, no redirect.
C1_ThreeOutcomes ==
    Handling(FormViews, {"POST"}) =>
        IF SentValidForm
        THEN /\ Called("form.is_valid", 1)
             /\ Count("form.save") = (IF Req.view \in ModelFormViews THEN 1 ELSE 0)
             /\ IF HasSuccessUrl
                THEN Redirected /\ Resp.location = ExpectedSuccessUrl
                ELSE Failed("ImproperlyConfigured")
        ELSE /\ Called("form.is_valid", 0)
             /\ Rendered
             /\ ShowsBoundForm
             /\ Count("form.save") = 0
             /\ Count("HttpResponseRedirect") = 0
             /\ rows = last.pre

\* C1 happens: a valid POST to CreateView was saved once and redirected
C1_Witness ==
    /\ Handling({"CreateView"}, {"POST"}) /\ SentValidForm
    /\ Redirected /\ Count("form.save") = 1 /\ rows # last.pre

\* the formsets the handler constructed
Instances == last.self.formsets_instances

\* every formset of the request was sent without a form that fails
SentValidFormsets ==
    \A p \in DOMAIN Req.POST.formsets :
        \A i \in DOMAIN Req.POST.formsets[p] : Req.POST.formsets[p][i] # "bad"

\* every form of every formset of the request was left blank
SentBlankFormsets ==
    \A p \in DOMAIN Req.POST.formsets :
        \A i \in DOMAIN Req.POST.formsets[p] : Req.POST.formsets[p][i] = "blank"

\* the page shows every formset the view declares, bound to what was sent
ShowsAllFormsets ==
    /\ "formsets" \in DOMAIN Resp.context
    /\ Resp.context.formsets = Instances
    /\ Len(Instances) = Len(cfg.formsets)
    /\ \A i \in DOMAIN Instances :
           /\ Instances[i].cls = cfg.formsets[i]
           /\ Instances[i].is_bound
           /\ Instances[i].forms = Req.POST.formsets[Instances[i].prefix]

\* C2 as stated: a POST to FormSetView or ModelFormSetView is redirected to
\* get_success_url() if and only if every formset is valid, and otherwise
\* comes back as a page with all the formsets; all-blank formsets redirect.
C2_RedirectIffAllValid ==
    Handling(FormSetViews, {"POST"}) =>
        /\ (Redirected /\ Resp.location = PlainSuccessUrl) <=> SentValidFormsets
        /\ ~SentValidFormsets => Rendered /\ ShowsAllFormsets
        /\ SentBlankFormsets => Redirected

\* C2 amended: a POST to FormSetView or ModelFormSetView is redirected to
\* get_success_url() if and only if every formset is valid and success_url
\* is set; with every formset valid and no success_url, ImproperlyConfigured
\* leaves the handler and nothing is returned; with an invalid formset the
\* page comes back with all the constructed formsets.  All-blank formsets
\* are valid, and redirect when success_url is set.
C2_RedirectIffAllValidAndUrl ==
    Handling(FormSetViews, {"POST"}) =>
        /\ (Redirected /\ Resp.location = PlainSuccessUrl)
               <=> (SentValidFormsets /\ Truthy(cfg.success_url))
        /\ SentValidFormsets /\ ~Truthy(cfg.success_url) => Failed("ImproperlyConfigured")
        /\ ~SentValidFormsets => Rendered /\ ShowsAllFormsets
        /\ SentBlankFormsets => SentValidFormsets
        /\ Called("all_valid", IF SentValidFormsets THEN 1 ELSE 0)

\* C2 happens: of two formsets sent, one is valid and one has a form that
\* fails, and the page came back with both
C2_Witness ==
    /\ Handling(FormSetViews, {"POST"})
    /\ Len(Instances) = 2
    /\ ~SentValidFormsets /\ Rendered /\ ShowsAllFormsets
    /\ \E i \in DOMAIN Instances : formset_is_valid(Instances[i])

\* C3: after construct_formsets the prefixes of the formsets are pairwise
\* distinct: the first formset with default prefix p has p, the k-th has
\* "p-k".
C3_PrefixesDistinct ==
    Count("construct_formsets") = 1 =>
        /\ \A i, j \in DOMAIN Instances :
               i # j => Instances[i].prefix # Instances[j].prefix
        /\ \A i \in DOMAIN Instances :
               LET p == get_default_prefix(last.self, cfg.formsets[i])
                   k == Cardinality({j \in 1..i :
                            get_default_prefix(last.self, cfg.formsets[j]) = p})
               IN  Instances[i].prefix = (IF k = 1 THEN p ELSE p \o <<"-">> \o IntStr(k))

\* the calls that write to the store
Writes ==
    Count("form.save") + Count("object.save") + Count("formset.save")
        + Count("object.delete")

\* the position of the first call of this name, 0 when there is none
FirstCall(op) ==
    IF Count(op) = 0 THEN 0
    ELSE CHOOSE i \in DOMAIN Calls :
             Calls[i][1] = op /\ \A j \in 1..(i - 1) : Calls[j][1] # op

\* every formset the handler constructed was saved exactly once, in order
EachFormsetSavedOnce ==
    /\ Count("formset.save") = Len(Instances)
    /\ \A i \in DOMAIN Instances :
           Cardinality({j \in DOMAIN Calls : Calls[j] = <<"formset.save", i>>}) = 1

\* the forms of the constructed formsets that were filled in: what save()
\* of all of them adds to the store
RECURSIVE FilledForms(_)
FilledForms(i) ==
    IF i = 0 THEN 0
    ELSE FilledForms(i - 1)
         + Cardinality({j \in DOMAIN Instances[i].forms : Instances[i].forms[j] # "blank"})

\* C4: ModelFormSetView saves all or nothing: with an invalid formset save()
\* is called on no formset and the stored objects are unchanged; with all
\* valid, save() is called on every formset exactly once, before the
\* redirect is returned.
C4_AllOrNothing ==
    Handling({"ModelFormSetView"}, {"POST"}) =>
        IF SentValidFormsets
        THEN /\ EachFormsetSavedOnce
             /\ last.pre \subseteq rows
             /\ Cardinality(rows) = Cardinality(last.pre) + FilledForms(Len(Instances))
             /\ Redirected =>
                    \A j \in DOMAIN Calls :
                        Calls[j][1] = "formset.save" => j < FirstCall("HttpResponseRedirect")
        ELSE /\ Writes = 0
             /\ rows = last.pre
             /\ nextId = last.preNext
             /\ ~Redirected

\* C4 happens: two valid formsets with filled-in forms were saved and the
\* redirect came back
C4_Witness ==
    /\ Handling({"ModelFormSetView"}, {"POST"})
    /\ Len(Instances) = 2 /\ SentValidFormsets /\ ~SentBlankFormsets
    /\ Count("formset.save") = 2 /\ rows # last.pre /\ Redirected

\* the parent object and every inline formset were saved: the parent is in
\* the store with the values sent, and each new object is the parent or
\* points to it
ParentAndInlinesSaved ==
    /\ Count("object.save") = 1
    /\ EachFormsetSavedOnce
    /\ last.self.object \in rows
    /\ last.self.object.val = Req.POST.form
    /\ Req.pk # 0 => last.self.object.id = Req.pk
    /\ \A r \in rows \ last.pre : r = last.self.object \/ r.parent = last.self.object.id
    /\ Cardinality(rows \ last.pre) + (IF last.self.object \in last.pre THEN 1 ELSE 0)
           = 1 + FilledForms(Len(Instances))

\* C5 as stated: a POST to InlineFormSetView with a valid parent form and
\* valid inline formsets saves the parent and the formsets and redirects;
\* any other POST writes nothing and renders the page.
C5_SavedAndRedirected ==
    Handling(InlineViews, {"POST"}) =>
        IF SentValidForm /\ SentValidFormsets
        THEN ParentAndInlinesSaved /\ Redirected
        ELSE Writes = 0 /\ rows = last.pre /\ Rendered

\* C5 amended: a POST to InlineFormSetView persists anything only when the
\* parent form and every inline formset are valid: then the parent object
\* and all inline formsets are saved, and the response is a redirect (302)
\* when success_url is set; when it is not, ImproperlyConfigured is raised
\* after the saves and no response is returned.  With an invalid parent form
\* or an invalid inline formset nothing is written and the page (200) comes
\* back.
C5_SavedThenRedirectedOrRaised ==
    Handling(InlineViews, {"POST"}) =>
        IF SentValidForm /\ SentValidFormsets
        THEN /\ ParentAndInlinesSaved
             /\ IF Truthy(cfg.success_url)
                THEN Redirected /\ Resp.location = PlainSuccessUrl
                ELSE Failed("ImproperlyConfigured")
        ELSE /\ Writes = 0
             /\ rows = last.pre
             /\ nextId = last.preNext
             /\ Rendered

\* C5 happens: the parent form was valid, an inline formset was not, and
\* nothing was written
C5_Witness ==
    /\ Handling(InlineViews, {"POST"})
    /\ SentValidForm /\ ~SentValidFormsets
    /\ Called("form.save(commit=False)", 0)
    /\ Rendered /\ rows = last.pre

\* success_url with the key of the object filled in, written out for the
\* one-digit ids of the model
Filled(s, id) == [i \in DOMAIN s |-> IF s[i] = "%(id)s" THEN Digit(id) ELSE s[i]]

\* C6: get_success_url of FormView, FormSetView, ModelFormSetView and
\* DeleteView returns success_url when it is set and raises
\* ImproperlyConfigured otherwise; of CreateView and UpdateView it returns
\* success_url interpolated with the object's attributes when set, else the
\* object's get_absolute_url(), and raises only when neither exists.  When
\* ImproperlyConfigured is raised, neither a redirect nor a page is returned.
C6_SuccessUrl ==
    /\ Resp.exc = "ImproperlyConfigured" => Failed("ImproperlyConfigured")
    /\ (Count("get_success_url") > 0 /\ Req.view \in Views \ (ModelFormViews \cup InlineViews)) =>
           IF ~cfg.success_url.none
           THEN Redirected /\ Resp.location = cfg.success_url.s
           ELSE Failed("ImproperlyConfigured")
    /\ (Count("get_success_url") > 0 /\ Req.view \in ModelFormViews) =>
           IF ~cfg.success_url.none
           THEN Redirected /\ Resp.location = Filled(cfg.success_url.s, last.self.object.id)
           ELSE IF cfg.has_absolute_url
                THEN Redirected
                     /\ Resp.location = <<"/detail/", Digit(last.self.object.id), "/">>
                ELSE Failed("ImproperlyConfigured")

\* C6 happens: CreateView redirected to its success_url with the id of the
\* new object filled in
C6_Witness ==
    /\ Handling({"CreateView"}, {"POST"})
    /\ \E i \in DOMAIN cfg.success_url.s : cfg.success_url.s[i] = "%(id)s"
    /\ Redirected
    /\ last.self.object.id = last.preNext
    /\ Resp.location = <<"/edit/", Digit(last.preNext), "/">>

\* C7: PUT is handled exactly like POST: put(request, *args) gives the
\* response and the save effects of post(request, *args) for the same
\* request and URL arguments, also when the URL has no positional arguments.
C7_PutLikePost ==
    Handling(Views \ DeleteViews, {"PUT"}) =>
        LET out == post(MakeSelf(cfg, Req, last.pre, last.preNext), Req.argv)
        IN  /\ Resp.status = out.resp.status
            /\ Resp.exc = out.resp.exc
            /\ Resp.location = out.resp.location
            /\ rows = out.self.rows
            /\ Calls = out.self.log

\* the form and the formsets the handler built are bound
BuiltBound ==
    /\ "form" \in DOMAIN Resp.context => Resp.context.form.is_bound
    /\ \A i \in DOMAIN Instances : Instances[i].is_bound

\* the form and the formsets the handler built are unbound
BuiltUnbound ==
    /\ "form" \in DOMAIN Resp.context =>
           ~Resp.context.form.is_bound /\ Resp.context.form.data = "unbound"
    /\ \A i \in DOMAIN Instances :
           ~Instances[i].is_bound /\ Instances[i].forms = <<>>

\* C8: a GET to a form, formset or inline formset view changes no stored
\* data and never redirects: no save() or delete() is called, the form and
\* the formsets are built unbound (data and files go to the constructors
\* only for POST and PUT), and the response is the rendered page (200).
C8_GetReadsOnly ==
    /\ Handling(Views \ DeleteViews, {"GET"}) =>
           /\ Rendered
           /\ Writes = 0 /\ Count("form.save(commit=False)") = 0
           /\ Count("HttpResponseRedirect") = 0
           /\ rows = last.pre /\ nextId = last.preNext
           /\ BuiltUnbound
           /\ Req.view \in FormViews \cup InlineViews => "form" \in DOMAIN Resp.context
           /\ Req.view \in FormSetViews \cup InlineViews =>
                  Len(Instances) = Len(cfg.formsets) /\ Resp.context.formsets = Instances
    /\ Handling(Views \ DeleteViews, {"POST", "PUT"}) => BuiltBound

\* C8 happens: a GET to InlineFormSetView for a stored author rendered the
\* page with an unbound form and two unbound formsets
C8_Witness ==
    /\ Handling(InlineViews, {"GET"}) /\ Req.pk # 0
    /\ Rendered /\ Len(Instances) = 2 /\ BuiltUnbound
    /\ ~Resp.context.form.is_bound
    /\ last.pre # {} /\ rows = last.pre

\* delete() was called once, on the object the URL names, and what is gone
\* from the store is that object (with the rows that point to it)
DeletedTheObject ==
    /\ Count("object.delete") = 1
    /\ Called("object.delete", Req.pk)
    /\ last.self.object \in last.pre /\ last.self.object.id = Req.pk
    /\ \A r \in last.pre : r \in rows <=> (r.id # Req.pk /\ r.parent # Req.pk)
    /\ rows \subseteq last.pre
    /\ Writes = 1

\* C9 as stated: DeleteView deletes the object of get_object() on DELETE
\* and on POST and then redirects to success_url; a GET deletes nothing.
C9_DeletesAndRedirects ==
    /\ Handling(DeleteViews, {"DELETE", "POST"}) =>
           DeletedTheObject /\ Redirected /\ Resp.location = PlainSuccessUrl
    /\ Handling(DeleteViews, {"GET"}) => Writes = 0 /\ rows = last.pre

\* C9 amended: DeleteView deletes the object returned by get_object() on a
\* DELETE request and, identically, on a POST request; exactly that one
\* object is deleted, once per request.  Then it redirects to success_url
\* when success_url is set; when it is not, ImproperlyConfigured is raised
\* after the delete and no response is returned.  A GET deletes nothing.
C9_DeletesThenRedirectsOrRaises ==
    /\ Handling(DeleteViews, {"DELETE", "POST"}) =>
           /\ DeletedTheObject
           /\ IF Truthy(cfg.success_url)
              THEN Redirected /\ Resp.location = PlainSuccessUrl
              ELSE Failed("ImproperlyConfigured")
    /\ Handling(DeleteViews, {"GET"}) =>
           Writes = 0 /\ rows = last.pre /\ Rendered

\* C9 happens: a POST to DeleteView took one of two stored objects away and
\* redirected
C9_Witness ==
    /\ Handling(DeleteViews, {"POST"})
    /\ Cardinality(last.pre) = 2 /\ Cardinality(rows) = 1
    /\ Count("object.delete") = 1 /\ Redirected

\* C10: CreateView works on a new object, UpdateView on the stored one.  A
\* valid POST to CreateView adds exactly one object and an invalid one adds
\* none; a valid POST to UpdateView changes the object of get_object(),
\* passed as the form's instance, and leaves the number of objects as it
\* was.  After a valid POST self.object is what form.save() returned.
C10_CreateNewUpdateStored ==
    /\ Handling({"CreateView"}, {"POST"}) =>
           IF SentValidForm
           THEN /\ Count("get_object") = 0
                /\ last.self.object \notin last.pre
                /\ last.self.object.id = last.preNext
                /\ last.self.object.val = Req.POST.form
                /\ rows = last.pre \cup {last.self.object}
                /\ Cardinality(rows) = Cardinality(last.pre) + 1
           ELSE /\ rows = last.pre
                /\ "object" \notin DOMAIN Resp.context
                /\ Resp.context.form.instance.id = 0
    /\ Handling({"CreateView"}, {"GET"}) =>
           "object" \notin DOMAIN Resp.context /\ Resp.context.form.instance.id = 0
    /\ Handling({"UpdateView"}, {"POST"}) =>
           IF SentValidForm
           THEN /\ Count("get_object") = 1
                /\ last.self.object.id = Req.pk
                /\ last.self.object.val = Req.POST.form
                /\ last.self.object \in rows
                /\ \A r \in last.pre : r.id # Req.pk => r \in rows
                /\ {r.id : r \in rows} = {r.id : r \in last.pre}
                /\ Cardinality(rows) = Cardinality(last.pre)
                /\ nextId = last.preNext
           ELSE /\ rows = last.pre
                /\ Resp.context.object \in last.pre
                /\ Resp.context.object.id = Req.pk
                /\ Resp.context.form.instance = Resp.context.object
    /\ Handling({"UpdateView"}, {"GET"}) =>
           /\ Resp.context.object \in last.pre
           /\ Resp.context.object.id = Req.pk
           /\ Resp.context.form.instance = Resp.context.object

\* C10 happens: a valid POST to UpdateView changed one of two stored objects
C10_Witness ==
    /\ Handling({"UpdateView"}, {"POST"}) /\ SentValidForm
    /\ Cardinality(last.pre) = 2 /\ Cardinality(rows) = 2
    /\ rows # last.pre
    /\ last.self.object \in rows /\ last.self.object.id = Req.pk

\* the formsets of the request are those built from what the request sent:
\* one per declared class, bound exactly when the request carries a body,
\* each reading the forms sent under its own prefix
BuiltForThisRequest ==
    /\ Len(Instances) = Len(cfg.formsets)
    /\ \A i \in DOMAIN Instances :
           /\ Instances[i].cls = cfg.formsets[i]
           /\ Instances[i].is_bound <=> Req.method \in {"POST", "PUT"}
           /\ Instances[i].forms =
                  (IF Instances[i].is_bound THEN Req.POST.formsets[Instances[i].prefix]
                   ELSE <<>>)

\* what a request leaves of its view: nothing once the response is out; the
\* formsets it built, rendered and saved are its own, and a further call of
\* construct_formsets on the same view starts from an empty list again
OwnFormsetsOnly ==
    /\ Req = NoRequest => Instances = <<>> /\ Calls = <<>>
    /\ Count("construct_formsets") = 0 => Instances = <<>> /\ Count("formset.save") = 0
    /\ Count("construct_formsets") > 0 =>
           /\ BuiltForThisRequest
           /\ Len(construct_formsets(last.self).formsets_instances) = Len(cfg.formsets)
           /\ Rendered => Resp.context.formsets = Instances
           /\ \A j \in DOMAIN Calls :
                  Calls[j][1] = "formset.save" => Calls[j][2] \in DOMAIN Instances

\* C11: requests share no mutable state through the views: no step changes
\* the class attributes (formsets, initial, success_url, form_class), and
\* construct_formsets starts from an empty list on every call, so the
\* formsets rendered or saved for a request are only those constructed
\* during that request.
C11_NoSharedState ==
    /\ [][cfg' = cfg]_vars
    /\ []OwnFormsetsOnly

\* C11 happens: a second request was handled after one that saved formsets,
\* and its page shows its own two unbound formsets
C11_Witness ==
    /\ Handling(FormSetViews, {"GET"}) /\ last.pre # {}
    /\ last.pre \cap {StoredAuthor, StoredArticle} = {}
    /\ Len(Instances) = 2 /\ Rendered /\ BuiltUnbound
    /\ Resp.context.formsets = Instances

\* the request ended with ImproperlyConfigured: no success url
NoUrlToRedirectTo ==
    /\ Handling(Views, {"POST", "PUT", "DELETE"})
    /\ Resp.exc = "ImproperlyConfigured"

\* the same request handled by the same view class with a success_url
WithSuccessUrl ==
    dispatch(MakeSelf([cfg EXCEPT !.success_url = PyStr(<<"/list/">>)],
                      Req, last.pre, last.preNext), Req.argv)

\* C12 as stated: a POST, PUT or DELETE that ends with ImproperlyConfigured
\* for want of a success url has changed no stored data: nothing was saved
\* and nothing deleted.
C12_NothingWrittenOnError ==
    NoUrlToRedirectTo => Writes = 0 /\ rows = last.pre /\ nextId = last.preNext

\* C12 amended: a POST, PUT or DELETE that ends with ImproperlyConfigured
\* for want of a success url has already made every write of the successful
\* path, and the writes stay: the create and update views have saved the
\* form once, ModelFormSetView every formset, InlineFormSetView the parent
\* object and every inline formset, DeleteView has deleted the object.  The
\* exception comes from the last call the handler makes; the store is what
\* the same request leaves when success_url is set.  Only FormView and
\* FormSetView, which write on no path, leave the stored data unchanged.
C12_WrittenBeforeError ==
    NoUrlToRedirectTo =>
        /\ Failed("ImproperlyConfigured")
        /\ ~HasSuccessUrl
        /\ Count("get_success_url") = 1
        /\ Calls[Len(Calls)] = <<"get_success_url", 0>>
        /\ WithSuccessUrl.resp.status = 302
        /\ WithSuccessUrl.self.rows = rows
        /\ WithSuccessUrl.self.nextId = nextId
        /\ Req.view \in {"FormView", "FormSetView"} =>
               Writes = 0 /\ rows = last.pre /\ nextId = last.preNext
        /\ Req.view \in ModelFormViews =>
               /\ Count("form.save") = 1 /\ Writes = 1
               /\ last.self.object \in rows
               /\ last.self.object.val = Req.POST.form
        /\ Req.view = "ModelFormSetView" =>
               /\ EachFormsetSavedOnce
               /\ Cardinality(rows) = Cardinality(last.pre) + FilledForms(Len(Instances))
        /\ Req.view \in InlineViews => ParentAndInlinesSaved
        /\ Req.view \in DeleteViews => DeletedTheObject

\* C12 happens: a POST to InlineFormSetView without a success_url saved the
\* parent and the forms of two inline formsets and ended with the exception
C12_Witness ==
    /\ Handling(InlineViews, {"POST"}) /\ Failed("ImproperlyConfigured")
    /\ Len(Instances) = 2 /\ ~SentBlankFormsets
    /\ Count("object.save") = 1 /\ Count("formset.save") = 2
    /\ Cardinality(rows) > Cardinality(last.pre) + 1

\* C13: in InlineFormSetView the method resolution order over
\* InlineFormSetMixin(ModelFormSetMixin, ModelFormMixin) finds FormSetMixin's
\* get_success_url before ModelFormMixin's: success_url is returned verbatim,
\* with no attribute of the object filled in, and without a success_url
\* ImproperlyConfigured is raised even if the object has get_absolute_url().
C13_InlineUsesFormSetMixin ==
    (Req.view \in InlineViews /\ Count("get_success_url") > 0) =>
        /\ ResolveGetSuccessUrl(Req.view) = "FormSetMixin"
        /\ ParentAndInlinesSaved
        /\ IF ~cfg.success_url.none
           THEN Redirected /\ Resp.location = cfg.success_url.s
           ELSE Failed("ImproperlyConfigured")

\* C13 happens: InlineFormSetView saved a new author and redirected to its
\* success_url with "%(id)s" still in it
C13_Witness ==
    /\ Handling(InlineViews, {"POST"}) /\ Req.pk = 0
    /\ last.self.object \in rows /\ last.self.object.id = last.preNext
    /\ cfg.has_absolute_url
    /\ Redirected /\ Resp.location = <<"/edit/", "%(id)s", "/">>

\* the calls of the handler, without the writes to the store
HandlerCalls == SelectSeq(Calls, LAMBDA c : c[1] # "Model.save")

\* the positions of the trace at which a row was written to the store
StoreWrites == {j \in DOMAIN Calls : Calls[j][1] = "Model.save"}

\* the calls of a successful inline POST, in order
InlinePostCalls ==
    <<  <<"get_object", 0>>, <<"form.is_valid", 1>>, <<"form.save(commit=False)", 0>>,
        <<"construct_formsets", 0>>, <<"all_valid", 1>>, <<"form_valid", 0>>,
        <<"object.save", 0>>, <<"form.save_m2m", 0>>  >>
    \o [i \in 1..Len(cfg.formsets) |-> <<"formset.save", i>>]
    \o << <<"get_success_url", 0>> >>
    \o (IF Redirected THEN << <<"HttpResponseRedirect", 0>> >> ELSE <<>>)

\* C14: on a successful InlineFormSetView POST the writes happen in a fixed
\* order: form.save(commit=False), which writes nothing to the store, and
\* the validation of all formsets come first, then the parent object is
\* saved, then form.save_m2m(), then each inline formset in the order of
\* formsets, and only then is the success url computed; no inline formset
\* is saved before its parent object has been saved.
C14_ParentThenInlines ==
    (Handling(InlineViews, {"POST"}) /\ Count("form_valid") > 0) =>
        /\ HandlerCalls = InlinePostCalls
        /\ Cardinality(StoreWrites) = 1 + FilledForms(Len(Instances))
        /\ Calls[FirstCall("object.save") + 1] = <<"Model.save", last.self.object.id>>
        /\ \A j \in StoreWrites :
               /\ j > FirstCall("object.save")
               /\ j < FirstCall("get_success_url")
               /\ j # FirstCall("object.save") + 1 =>
                      /\ j > FirstCall("formset.save")
                      /\ \E r \in rows :
                             r.id = Calls[j][2] /\ r.parent = last.self.object.id

\* C14 happens: a new author and the filled-in forms of its two inline
\* formsets were saved, in this order, and the redirect came back
C14_Witness ==
    /\ Handling(InlineViews, {"POST"}) /\ Req.pk = 0 /\ Redirected
    /\ Len(Instances) = 2 /\ Cardinality(StoreWrites) = 3
    /\ Calls[FirstCall("object.save") + 1] = <<"Model.save", last.preNext>>
    /\ Called("Model.save", last.preNext + 2)

\* the calls that read formsets_instances
UsesFormsets == {"get_context_data", "all_valid", "formsets_valid", "formsets_invalid",
                 "form_valid", "form_invalid", "formset.save"}

\* C15: formset construction is complete on every path: after
\* construct_formsets, formsets_instances holds exactly one instance per
\* entry of formsets, in the same order; on every path of get and post of
\* ProcessFormSetView and ProcessInlineFormSetView construct_formsets has
\* run exactly once before get_context_data, formsets_valid or form_valid is
\* reached.  On the form-valid path of the inline POST it runs after
\* form.save(commit=False), so the inline formsets are bound to the object
\* that carries the submitted values.
C15_ConstructedOnce ==
    Handling(FormSetViews \cup InlineViews, {"GET", "POST"}) =>
        /\ Count("construct_formsets") = 1
        /\ \A j \in DOMAIN Calls :
               Calls[j][1] \in UsesFormsets => FirstCall("construct_formsets") < j
        /\ Count("get_context_data") + Count("formsets_valid") + Count("form_valid") = 1
        /\ Len(Instances) = Len(cfg.formsets)
        /\ \A i \in DOMAIN Instances : Instances[i].cls = cfg.formsets[i]
        /\ (Req.view \in InlineViews /\ Req.method = "POST" /\ SentValidForm) =>
               /\ Count("form.save(commit=False)") = 1
               /\ FirstCall("form.save(commit=False)") < FirstCall("construct_formsets")
               /\ last.self.object.val = Req.POST.form
               /\ last.self.object.model = "author"
               /\ Req.pk # 0 => last.self.object.id = Req.pk
               /\ Count("object.save") = 0 => last.self.object.id = Req.pk
               /\ \A i \in DOMAIN Instances : Instances[i].instance = last.self.object
        /\ (Req.view \in InlineViews /\ ~(Req.method = "POST" /\ SentValidForm)) =>
               /\ Count("form.save(commit=False)") = 0
               /\ \A i \in DOMAIN Instances :
                      Instances[i].instance =
                          (IF Req.pk = 0 THEN NewObj("author")
                           ELSE CHOOSE r \in last.pre : r.id = Req.pk)
        /\ Req.view \in FormSetViews =>
               \A i \in DOMAIN Instances : Instances[i].instance = NoneObj

\* C15 happens: a POST to InlineFormSetView for a stored author with a valid
\* form and an invalid inline formset came back as the page, its two
\* formsets bound to the author with the values sent
C15_Witness ==
    /\ Handling(InlineViews, {"POST"}) /\ Req.pk # 0
    /\ SentValidForm /\ ~SentValidFormsets /\ Rendered
    /\ Len(Instances) = 2
    /\ \A i \in DOMAIN Instances :
           Instances[i].instance.id = Req.pk /\ Instances[i].instance.val = "v1"
    /\ \E r \in rows : r.id = Req.pk /\ r.val = "v0"

====
